---- MODULE Spec2Model ----
(***************************************************************************)
(* Model of the HTCondor probe of gratia-probe                             *)
(* (src/common/gratia/common/condor.py): the record parser fd_to_classad,  *)
(* the ingestion loops process_history_file / process_history_fd, the      *)
(* per-source bookkeeping of process_history_dirs and the dispatcher       *)
(* send_alternate_records.                                                 *)
(*                                                                         *)
(* A run is either a directory scan (mode = "dirs", process_history_dirs)  *)
(* or a stream scan (mode = "fd", process_condor_history).  The content of *)
(* each source is read line by line; fdLines is the part of the current    *)
(* source read so far.  A line is blank, a line the ClassAd parser rejects,*)
(* or a ClassAd fragment ("[a = 1; b = 2]"); classad.parseOne merges the   *)
(* fragments of one buffer.                                                *)
(***************************************************************************)
EXTENDS Integers, Sequences, FiniteSets, TLC

\* ---------------------------------------------------------------- bounds
\* total number of lines read from all sources of one run
MaxLines == 3
\* number of logfiles logfiles_to_process yields in one run
MaxSources == 2

\* ------------------------------------------------------ program constants
\* the age floor (time.time() - 120*86400), on a small time scale
min_start_time == 2

\* GratiaCore.Config.get_ProbeName(): a probe name is the sequence of its
\* '-'-separated parts, so "<default>-<v>" is <<"P0", v>>
Config_ProbeName == <<"P0">>
\* GratiaCore.Config.get_SiteName()
Config_SiteName == "S0"

\* ----------------------------------------------------------- ClassAd model
Has(ad, a) == a \in DOMAIN ad
Get(ad, a, d) == IF a \in DOMAIN ad THEN ad[a] ELSE d
Put(ad, a, v) == [x \in (DOMAIN ad) \cup {a} |-> IF x = a THEN v ELSE ad[x]]
Merge(f, g) == [x \in (DOMAIN f) \cup (DOMAIN g) |-> IF x \in DOMAIN g THEN g[x] ELSE f[x]]
EmptyAd == [x \in {} |-> 0]

\* the value classad.lookup('GratiaSiteName').eval() returns, with its
\* Python type
SiteVal(t, v) == [type |-> t, val |-> v]

adFresh == [ClusterId |-> 1, CompletionDate |-> min_start_time]
adStale == [ClusterId |-> 1, CompletionDate |-> min_start_time - 1]
adAlt == [ClusterId |-> 1, EnteredCurrentStatus |-> min_start_time,
          GratiaSiteName |-> SiteVal("bytes", "A")]
adOwn == [ClusterId |-> 1, CompletionDate |-> min_start_time,
          GratiaSiteName |-> SiteVal("bytes", Config_SiteName)]
adDagman == [ClusterId |-> 1, Cmd |-> <<"usr", "bin", "condor_dagman">>]
adNoId == [CompletionDate |-> min_start_time]

Fragments == {adFresh, adStale, adAlt, adOwn, adDagman, adNoId}

BlankLine == [kind |-> "blank"]
BadLine == [kind |-> "bad"]
AdLine(f) == [kind |-> "ad", ad |-> f]
Lines == {BlankLine, BadLine} \cup {AdLine(f) : f \in Fragments}

\* the status strings GratiaCore.Send returns, as sequences of characters
Responses == {<<"O", "K", " ", "1">>, <<"O">>, <<"E", "r", "r">>}

\* s[:n]
Prefix(s, n) == SubSeq(s, 1, IF Len(s) < n THEN Len(s) ELSE n)

\* ResponseOK looking at the first character only
ResponseOK_firstChar(response) == Prefix(response, 1) = <<"O">>

\* lines 450 / 524 / 1072: response[:2] == 'OK'
ResponseOK(response) == Prefix(response, 2) = <<"O", "K">>

VARIABLES
  mode,              \* "dirs" (process_history_dirs) or "fd" (process_condor_history)
  pc,                \* position of the parent process
  nlines,            \* lines read so far in this run
  logs_found,        \* process_history_dirs: logs_found, the current source
  log,               \* process_history_dirs: log, the name of the current source
  fdLines,           \* the lines of the current source read so far
  atEOF,             \* the current source has been read to its end
  buffer,            \* fd_to_classad: buffer (the lines of the open block)
  classad,           \* the record fd_to_classad yielded last
  yields,            \* number of records fd_to_classad yielded for this source
  genFinal,          \* fd_to_classad has made its yield at end-of-stream
  added_transient,   \* process_history_file: added_transient
  outcomes,          \* what the loop body did with each record of this source
  count_submit, count_found, count_alternate,
  submit_count, found_count, alternate_count, logfile_errors,
  quarantine,        \* sources handed to GratiaCore.QuarantineFile
  processed,         \* per source: what process_history_dirs saw of it
  g_alternate_records, \* sequence of [key, records], in insertion order
  sent,              \* calls of GratiaCore.Send, in order
  removed,           \* calls of file_utils.RemoveFile, in order
  connected,         \* the parent's transport session is open
  keyIdx,            \* send_alternate_records: position in gratia_info.items()
  workers            \* the forked workers, in the order of their os.fork()

scanVars == <<nlines, logs_found, log, fdLines, atEOF, buffer, classad, yields, genFinal,
              added_transient, outcomes, count_submit, count_found, count_alternate>>
totalVars == <<submit_count, found_count, alternate_count, logfile_errors,
               quarantine, processed>>
dispVars == <<connected, keyIdx, workers>>
vars == <<mode, pc, scanVars, totalVars, g_alternate_records, sent, removed, dispVars>>

Init ==
  /\ mode \in {"dirs", "fd"}
  /\ pc = IF mode = "dirs" THEN "dirs" ELSE "gen"
  /\ nlines = 0
  /\ logs_found = 0
  /\ log = <<>>
  /\ fdLines = <<>>
  /\ atEOF = FALSE
  /\ buffer = <<>>
  /\ classad = EmptyAd
  /\ yields = 0
  /\ genFinal = FALSE
  /\ added_transient = FALSE
  /\ outcomes = <<>>
  /\ count_submit = 0 /\ count_found = 0 /\ count_alternate = 0
  /\ submit_count = 0 /\ found_count = 0 /\ alternate_count = 0
  /\ logfile_errors = 0
  /\ quarantine = {}
  /\ processed = <<>>
  /\ g_alternate_records = <<>>
  /\ sent = <<>>
  /\ removed = <<>>
  /\ connected = TRUE
  /\ keyIdx = 0
  /\ workers = <<>>

\* ------------------------------------------------------------ Record Parser
RECURSIVE MergeAll(_)
MergeAll(buf) ==
  IF buf = <<>> THEN EmptyAd
  ELSE Merge(MergeAll(SubSeq(buf, 1, Len(buf) - 1)), buf[Len(buf)].ad)

\* classadLib.parseOne(buffer): the merged ad of the buffer's fragments, an
\* empty ad for an empty buffer, and an exception (a ValueError) when a line
\* of the buffer does not parse
parseOne(buf) ==
  IF \E i \in 1..Len(buf) : buf[i].kind = "bad"
  THEN [ok |-> FALSE, ad |-> EmptyAd]
  ELSE [ok |-> TRUE, ad |-> MergeAll(buf)]

\* add_unique_id without the "condor." prefix
add_unique_id_noPrefix(ad) ==
  IF Has(ad, "GlobalJobId")
  THEN Put(ad, "UniqGlobalJobId", ad["GlobalJobId"])
  ELSE ad

\* lines 870-874; a string is the sequence of its parts, and
\* 'condor.%s' % GlobalJobId is "condor." followed by the parts of GlobalJobId
add_unique_id(ad) ==
  IF Has(ad, "GlobalJobId")
  THEN Put(ad, "UniqGlobalJobId", <<"condor.">> \o ad["GlobalJobId"])
  ELSE ad

\* fd_to_classad, one iteration of "for lineOrig in fd": a blank line parses
\* and yields the buffer, any other line is added to it
fd_to_classad_line ==
  /\ pc = "gen" /\ ~atEOF /\ nlines < MaxLines
  /\ \E line \in Lines :
       /\ fdLines' = Append(fdLines, line)
       /\ nlines' = nlines + 1
       /\ IF line.kind = "blank"
          THEN IF parseOne(buffer).ok
               THEN /\ classad' = add_unique_id(parseOne(buffer).ad)
                    /\ buffer' = <<>>
                    /\ yields' = yields + 1
                    /\ pc' = "body"
               ELSE /\ pc' = "raised"
                    /\ UNCHANGED <<classad, buffer, yields>>
          ELSE /\ buffer' = Append(buffer, line)
               /\ pc' = "gen"
               /\ UNCHANGED <<classad, yields>>
  /\ UNCHANGED <<mode, logs_found, log, atEOF, genFinal, added_transient, outcomes,
                 count_submit, count_found, count_alternate, totalVars,
                 g_alternate_records, sent, removed, dispVars>>

\* fd_to_classad, after the loop: the stream has ended, the buffer is parsed
\* and yielded
fd_to_classad_eof ==
  /\ pc = "gen" /\ ~atEOF
  /\ atEOF' = TRUE
  /\ IF parseOne(buffer).ok
     THEN /\ classad' = add_unique_id(parseOne(buffer).ad)
          /\ yields' = yields + 1
          /\ genFinal' = TRUE
          /\ pc' = "body"
     ELSE /\ pc' = "raised"
          /\ UNCHANGED <<classad, yields, genFinal>>
  /\ UNCHANGED <<mode, nlines, logs_found, log, fdLines, buffer, added_transient,
                 outcomes, count_submit, count_found, count_alternate, totalVars,
                 g_alternate_records, sent, removed, dispVars>>

\* --------------------------------------------------------- Record Normalizer
\* os.path.split(path)[-1] of a path given as the sequence of its components
Basename(path) == IF path = <<>> THEN "" ELSE path[Len(path)]

\* lines 636-637: the record is the one of a condor_dagman monitor
IsDagman(ad) == Basename(Get(ad, "Cmd", <<"foo">>)) = "condor_dagman"

\* lines 621 and 624: the limits of invalidDuration
DurationLimit == 2000000000
RatioLimit == 1000

\* invalidDuration, lines 614-626: "True", "False", or the exception that
\* classad['CumulativeSlotTime'] or the division raises.  For a divisor d > 0
\* the quotient v / d is above RatioLimit exactly when v > RatioLimit * d; for
\* d < 0 the quotient of a v >= DurationLimit is negative
invalidDuration(ad, field) ==
  IF field \notin {"RemoteSysCpu", "RemoteUserCpu"} THEN "False"
  ELSE IF ad[field] < DurationLimit THEN "False"
  ELSE IF ~Has(ad, "CumulativeSlotTime") THEN "KeyError"
  ELSE IF ad["CumulativeSlotTime"] + 1 = 0 THEN "ZeroDivisionError"
  ELSE IF /\ ad["CumulativeSlotTime"] + 1 > 0
          /\ ad[field] > RatioLimit * (ad["CumulativeSlotTime"] + 1)
  THEN "True"
  ELSE "False"

CpuFields == {"RemoteUserCpu", "LocalUserCpu", "RemoteSysCpu", "LocalSysCpu"}

\* lines 685-715: the value of a CPU attribute after the normalizer has
\* replaced an invalid duration and filled in a missing one with 0
CpuValue(ad, field) ==
  IF ~Has(ad, field) THEN 0
  ELSE IF invalidDuration(ad, field) = "True" THEN 0
  ELSE ad[field]

\* lines 685-709: a call of invalidDuration raises
DurationRaises(ad) ==
  \E field \in {"RemoteUserCpu", "RemoteSysCpu"} :
    /\ Has(ad, field)
    /\ invalidDuration(ad, field) \in {"KeyError", "ZeroDivisionError"}

\* lines 650-656: the local job id, as the sequence of its '.'-separated
\* parts: "<ClusterId>.<ProcId>" for a positive ProcId, else the ClusterId
LocalJobId(ad) ==
  IF Has(ad, "ProcId") /\ ad["ProcId"] > 0
  THEN <<ad["ClusterId"], ad["ProcId"]>>
  ELSE <<ad["ClusterId"]>>

\* lines 58-61
RESOURCE_NAME_ATTRS ==
  <<"MachineAttrGLIDEIN_ResourceName0", "MATCH_EXP_JOBGLIDEIN_ResourceName">>

\* get_classad_resource_name, lines 559-564: the first resource name
\* attribute with a non-empty value; <<>> stands for None.  A name is the
\* sequence of its '-'-separated parts
get_classad_resource_name(ad) ==
  IF Get(ad, RESOURCE_NAME_ATTRS[1], <<>>) # <<>> THEN ad[RESOURCE_NAME_ATTRS[1]]
  ELSE Get(ad, RESOURCE_NAME_ATTRS[2], <<>>)

\* campus_factory_usage / campus_flock_usage (lines 611-612) .search(name):
\* the name ends in "-<suffix>"
EndsInDash(name, suffix) == Len(name) >= 2 /\ name[Len(name)] = suffix

\* GridCalls naming campus usage "Local"
GridCalls_campusLocal(ad) ==
  LET resource_name == get_classad_resource_name(ad)
  IN (IF Has(ad, "GratiaJobOrigin")
      THEN <<IF ad["GratiaJobOrigin"] = "GRAM" THEN "OSG" ELSE "Local">>
      ELSE <<>>)
     \o (IF resource_name = <<>> THEN <<>>
         ELSE IF EndsInDash(resource_name, "CF") THEN <<"Local">>
         ELSE IF EndsInDash(resource_name, "Flock") THEN <<"Local">>
         ELSE IF resource_name = <<"Local Job">> THEN <<"Local">>
         ELSE <<>>)
     \o (IF Has(ad, "JobUniverse") /\ ad["JobUniverse"] \in {7, 12}
         THEN <<"Local">> ELSE <<>>)
     \o (IF Has(ad, "RoutedToJobId") THEN <<"Local">> ELSE <<>>)

\* lines 792-814: the values of the calls of r.Grid, in the order they are
\* made; each call replaces the Grid of the record, so the last one stays
GridCalls(ad) ==
  LET resource_name == get_classad_resource_name(ad)
  IN (IF Has(ad, "GratiaJobOrigin")
      THEN <<IF ad["GratiaJobOrigin"] = "GRAM" THEN "OSG" ELSE "Local">>
      ELSE <<>>)
     \o (IF resource_name = <<>> THEN <<>>
         ELSE IF EndsInDash(resource_name, "CF") THEN <<"Campus">>
         ELSE IF EndsInDash(resource_name, "Flock") THEN <<"Campus">>
         ELSE IF resource_name = <<"Local Job">> THEN <<"Local">>
         ELSE <<>>)
     \o (IF Has(ad, "JobUniverse") /\ ad["JobUniverse"] \in {7, 12}
         THEN <<"Local">> ELSE <<>>)
     \o (IF Has(ad, "RoutedToJobId") THEN <<"Local">> ELSE <<>>)

\* lines 641-851, the usage record built from the ClassAd: its identity, the
\* durations and the CPU totals, its Grid calls and its destination
MakeJUR(ad, id) ==
  LET override == /\ Has(ad, "GratiaSiteName")
                  /\ ad["GratiaSiteName"].type = "bytes"
  IN [id |-> id,
      GlobalJobId |-> Get(ad, "UniqGlobalJobId", <<>>),
      LocalJobId |-> LocalJobId(ad),
      WallDuration |-> IF Has(ad, "RemoteWallClockTime")
                       THEN <<ad["RemoteWallClockTime"]>> ELSE <<>>,
      Grid |-> GridCalls(ad),
      TimeDuration |-> [f \in {g \in CpuFields : Has(ad, g)} |-> CpuValue(ad, f)],
      SysCpuTotal |-> CpuValue(ad, "RemoteSysCpu") + CpuValue(ad, "LocalSysCpu"),
      UserCpuTotal |-> CpuValue(ad, "RemoteUserCpu") + CpuValue(ad, "LocalUserCpu"),
      SiteName |-> IF override THEN ad["GratiaSiteName"].val
                   ELSE Config_SiteName,
      ProbeName |-> IF override
                    THEN Config_ProbeName \o <<ad["GratiaSiteName"].val>>
                    ELSE Config_ProbeName,
      transient |-> Get(ad, "logfile", 0)]

\* classadToJUR giving the ignore signal, instead of the hard error, for a
\* record without ClusterId
classadToJUR_noClusterIdIgnored(ad, id) ==
  IF ~Has(ad, "ClusterId") \/ IsDagman(ad)
  THEN [outcome |-> "ignore", remove |-> Has(ad, "logfile") /\ IsDagman(ad),
        r |-> EmptyAd]
  ELSE IF DurationRaises(ad)
  THEN [outcome |-> "error", remove |-> FALSE, r |-> EmptyAd]
  ELSE [outcome |-> "ok", remove |-> FALSE, r |-> MakeJUR(ad, id)]

\* classadToJUR raising a plain Exception for a condor_dagman record
classadToJUR_dagmanError(ad, id) ==
  IF ~Has(ad, "ClusterId") \/ IsDagman(ad)
  THEN [outcome |-> "error", remove |-> FALSE, r |-> EmptyAd]
  ELSE IF DurationRaises(ad)
  THEN [outcome |-> "error", remove |-> FALSE, r |-> EmptyAd]
  ELSE [outcome |-> "ok", remove |-> FALSE, r |-> MakeJUR(ad, id)]

\* classadToJUR without the RemoveFile of the transient input file
classadToJUR_keepFile(ad, id) ==
  IF ~Has(ad, "ClusterId")
  THEN [outcome |-> "error", remove |-> FALSE, r |-> EmptyAd]
  ELSE IF IsDagman(ad)
  THEN [outcome |-> "ignore", remove |-> FALSE, r |-> EmptyAd]
  ELSE IF DurationRaises(ad)
  THEN [outcome |-> "error", remove |-> FALSE, r |-> EmptyAd]
  ELSE [outcome |-> "ok", remove |-> FALSE, r |-> MakeJUR(ad, id)]

\* classadToJUR: the hard error of a record without ClusterId (line 629), the
\* ignore signal of a condor_dagman record with its RemoveFile (lines 636-641),
\* the exception of invalidDuration, or the usage record
classadToJUR(ad, id) ==
  IF ~Has(ad, "ClusterId")
  THEN [outcome |-> "error", remove |-> FALSE, r |-> EmptyAd]
  ELSE IF IsDagman(ad)
  THEN [outcome |-> "ignore", remove |-> Has(ad, "logfile"), r |-> EmptyAd]
  ELSE IF DurationRaises(ad)
  THEN [outcome |-> "error", remove |-> FALSE, r |-> EmptyAd]
  ELSE [outcome |-> "ok", remove |-> FALSE, r |-> MakeJUR(ad, id)]

\* the record's CompletionDate after lines 433-435 / 507-509
CompletionDate(ad) ==
  IF Get(ad, "CompletionDate", 0) = 0
  THEN Get(ad, "EnteredCurrentStatus", 0)
  ELSE ad["CompletionDate"]

\* TooOld dropping the record that is exactly at the floor
TooOld_inclusive(ad) == CompletionDate(ad) <= min_start_time

\* lines 437 / 511
TooOld(ad) == CompletionDate(ad) < min_start_time

\* line 443 (process_history_file) and line 517 (process_history_fd)
IsAlternateFile(r) == r.ProbeName # Config_ProbeName
IsAlternateFd(r) == r.SiteName # Config_SiteName

KeyOf(r) == [probe |-> r.ProbeName, site |-> r.SiteName]

\* g_alternate_records.setdefault(key, []).append(r)
AppendAlternate(batch, r) ==
  IF \E i \in 1..Len(batch) : batch[i].key = KeyOf(r)
  THEN [i \in 1..Len(batch) |->
          IF batch[i].key = KeyOf(r)
          THEN [batch[i] EXCEPT !.records = Append(@, r)]
          ELSE batch[i]]
  ELSE Append(batch, [key |-> KeyOf(r), records |-> <<r>>])

\* a call of GratiaCore.Send: by = 0 is the parent, by = k the worker of the
\* k-th key
SendEvent(r, resp, who) ==
  [id |-> r.id, ProbeName |-> r.ProbeName, SiteName |-> r.SiteName,
   resp |-> resp, by |-> who]

\* ------------------------------------------------------ Ingestion Controller
\* A file name is the sequence of its pieces: the word "history" and single
\* characters.
Digits == {"0", "1", "2", "3", "4", "5", "6", "7", "8", "9"}

\* the pattern \d+\.\d+ matched in name from position i on
NumDotNum(name, i) ==
  \E j \in (i + 1)..(Len(name) - 1) :
     /\ \A k \in i..(j - 1) : name[k] \in Digits
     /\ name[j] = "."
     /\ name[j + 1] \in Digits

\* logfile_re.match(name): ^history\.(?:.*?\#)?\d+\.\d+
logfile_re(name) ==
  /\ Len(name) >= 2 /\ name[1] = "history" /\ name[2] = "."
  /\ \/ NumDotNum(name, 3)
     \/ \E h \in 3..Len(name) : name[h] = "#" /\ NumDotNum(name, h + 1)

\* condor_history_re.match(name): ^history.(\d+)\.(\d+), where the "." after
\* "history" is unescaped and stands for any one character
condor_history_re(name) ==
  /\ Len(name) >= 2 /\ name[1] = "history"
  /\ NumDotNum(name, 3)

\* os.listdir of a directory argument: history files of a schedd, history
\* files with a "#"-delimited prefix, and other files
DirEntries ==
  { <<"history", ".", "1", ".", "2">>,
    <<"history", ".", "a", "#", "1", ".", "2">>,
    <<"history", "-", "1", ".", "2">>,
    <<"history", ".", "1">>,
    <<"history">>,
    <<"c", ".", "1", ".", "2">> }

\* logfiles_to_process, for a directory argument: the entries that match
\* logfile_re
logfiles_to_process == { name \in DirEntries : logfile_re(name) }

\* process_history_dirs, one iteration of "for log in logfiles_to_process":
\* the name is checked against condor_history_re, and process_history_file
\* opens the file
process_history_dirs_next ==
  /\ pc = "dirs" /\ logs_found < MaxSources
  /\ logs_found' = logs_found + 1
  /\ \E name \in logfiles_to_process, openOK \in BOOLEAN :
       /\ log' = name
       /\ IF ~condor_history_re(name)
          THEN /\ processed' = Append(processed,
                    [named |-> FALSE, err |-> FALSE, cnt_submit |-> 0,
                     cnt_found |-> 0, cnt_alternate |-> 0, outcomes |-> <<>>])
               /\ pc' = "dirs"
               /\ UNCHANGED atEOF
          ELSE /\ pc' = IF openOK THEN "gen" ELSE "ret"
               /\ atEOF' = FALSE
               /\ UNCHANGED processed
  /\ fdLines' = <<>>
  /\ buffer' = <<>>
  /\ yields' = 0
  /\ genFinal' = FALSE
  /\ added_transient' = FALSE
  /\ outcomes' = <<>>
  /\ count_submit' = 0 /\ count_found' = 0 /\ count_alternate' = 0
  /\ UNCHANGED <<mode, nlines, classad, submit_count, found_count, alternate_count,
                 logfile_errors, quarantine, g_alternate_records, sent, removed,
                 dispVars>>

\* where the loop over fd_to_classad goes after one pass of its body: the
\* generator is resumed, and it returns after its yield at end-of-stream
AfterBody == IF genFinal THEN "ret" ELSE "gen"

\* process_history_file, the body of "for classad in fd_to_classad(fd)"
process_history_file_body ==
  /\ pc = "body" /\ mode = "dirs"
  /\ count_found' = count_found + 1
  /\ pc' = AfterBody
  /\ IF DOMAIN classad = {}
     THEN /\ outcomes' = Append(outcomes, "empty")
          /\ UNCHANGED <<added_transient, count_submit, count_alternate,
                         g_alternate_records, sent, removed>>
     ELSE LET ad == IF added_transient THEN classad
                    ELSE Put(classad, "logfile", logs_found)
              j == classadToJUR(ad, <<logs_found, count_found + 1>>)
          IN /\ added_transient' = TRUE
             /\ CASE j.outcome = "error" ->
                       /\ outcomes' = Append(outcomes, "error")
                       /\ UNCHANGED <<count_submit, count_alternate,
                                   g_alternate_records, sent, removed>>
                  [] j.outcome = "ignore" ->
                       /\ outcomes' = Append(outcomes, "ignore")
                       /\ count_submit' = count_submit + 1
                       /\ removed' = IF j.remove THEN Append(removed, ad["logfile"])
                                     ELSE removed
                       /\ UNCHANGED <<count_alternate, g_alternate_records, sent>>
                  [] j.outcome = "ok" /\ TooOld(ad) ->
                       /\ outcomes' = Append(outcomes, "stale")
                       /\ UNCHANGED <<count_submit, count_alternate,
                                   g_alternate_records, sent, removed>>
                  [] j.outcome = "ok" /\ ~TooOld(ad) /\ IsAlternateFile(j.r) ->
                       /\ outcomes' = Append(outcomes, "alternate")
                       /\ count_alternate' = count_alternate + 1
                       /\ g_alternate_records' = AppendAlternate(g_alternate_records, j.r)
                       /\ UNCHANGED <<count_submit, sent, removed>>
                  [] j.outcome = "ok" /\ ~TooOld(ad) /\ ~IsAlternateFile(j.r) ->
                       \E resp \in Responses :
                         /\ sent' = Append(sent, SendEvent(j.r, resp, 0))
                         /\ outcomes' = Append(outcomes, IF ResponseOK(resp) THEN "sent_ok"
                                                           ELSE "sent_fail")
                         /\ count_submit' = IF ResponseOK(resp) THEN count_submit + 1
                                            ELSE count_submit
                         /\ UNCHANGED <<count_alternate, g_alternate_records, removed>>
  /\ UNCHANGED <<mode, nlines, logs_found, log, fdLines, atEOF, buffer, classad, yields,
                 genFinal, totalVars, dispVars>>

\* process_history_fd, the body of "for classad in fd_to_classad(fd)"
process_history_fd_body ==
  /\ pc = "body" /\ mode = "fd"
  /\ count_found' = count_found + 1
  /\ pc' = AfterBody
  /\ IF DOMAIN classad = {}
     THEN /\ outcomes' = Append(outcomes, "empty")
          /\ UNCHANGED <<count_submit, count_alternate, g_alternate_records, sent,
                         removed>>
     ELSE LET ad == classad
              j == classadToJUR(ad, <<logs_found, count_found + 1>>)
          IN CASE j.outcome = "error" ->
                    /\ outcomes' = Append(outcomes, "error")
                    /\ UNCHANGED <<count_submit, count_alternate,
                                g_alternate_records, sent, removed>>
               [] j.outcome = "ignore" ->
                    /\ outcomes' = Append(outcomes, "ignore")
                    /\ count_submit' = count_submit + 1
                    /\ removed' = IF j.remove THEN Append(removed, ad["logfile"])
                                  ELSE removed
                    /\ UNCHANGED <<count_alternate, g_alternate_records, sent>>
               [] j.outcome = "ok" /\ TooOld(ad) ->
                    /\ outcomes' = Append(outcomes, "stale")
                    /\ UNCHANGED <<count_submit, count_alternate,
                                g_alternate_records, sent, removed>>
               [] j.outcome = "ok" /\ ~TooOld(ad) /\ IsAlternateFd(j.r) ->
                    /\ outcomes' = Append(outcomes, "alternate")
                    /\ count_alternate' = count_alternate + 1
                    /\ g_alternate_records' = AppendAlternate(g_alternate_records, j.r)
                    /\ UNCHANGED <<count_submit, sent, removed>>
               [] j.outcome = "ok" /\ ~TooOld(ad) /\ ~IsAlternateFd(j.r) ->
                    \E resp \in Responses :
                      /\ sent' = Append(sent, SendEvent(j.r, resp, 0))
                      /\ outcomes' = Append(outcomes, IF ResponseOK(resp) THEN "sent_ok"
                                                        ELSE "sent_fail")
                      /\ count_submit' = IF ResponseOK(resp) THEN count_submit + 1
                                         ELSE count_submit
                      /\ UNCHANGED <<count_alternate, g_alternate_records, removed>>
  /\ UNCHANGED <<mode, nlines, logs_found, log, fdLines, atEOF, buffer, classad, yields,
                 genFinal, added_transient, totalVars, dispVars>>

\* SourceOK without the test that something was submitted or rerouted
SourceOK_anyCount(e, cnt_submit, cnt_found, cnt_alternate) ==
  /\ ~e
  /\ cnt_submit + cnt_alternate = cnt_found

\* line 378: the source counts as processed
SourceOK(e, cnt_submit, cnt_found, cnt_alternate) ==
  /\ ~e
  /\ cnt_submit + cnt_alternate = cnt_found
  /\ (cnt_submit > 0 \/ cnt_alternate > 0)

\* CountsSeen keeping the counts of a source that raised
CountsSeen_kept(e, cnt) == cnt

\* lines 372-376: the counts process_history_dirs sees, zero after a ValueError
CountsSeen(e, cnt) == IF e THEN 0 ELSE cnt

\* process_history_dirs, lines 372-386: process_history_file has returned its
\* counts (pc = "ret") or raised a ValueError (pc = "raised"); the source is
\* quarantined or not and its counts are added to the totals
process_history_dirs_account ==
  /\ mode = "dirs" /\ pc \in {"ret", "raised"}
  /\ LET e == (pc = "raised")
         cnt_submit == CountsSeen(e, count_submit)
         cnt_found == CountsSeen(e, count_found)
         cnt_alternate == CountsSeen(e, count_alternate)
     IN /\ IF SourceOK(e, cnt_submit, cnt_found, cnt_alternate)
           THEN UNCHANGED <<quarantine, logfile_errors>>
           ELSE /\ quarantine' = quarantine \cup {logs_found}
                /\ logfile_errors' = logfile_errors + 1
        /\ submit_count' = submit_count + cnt_submit
        /\ found_count' = found_count + cnt_found
        /\ alternate_count' = alternate_count + cnt_alternate
        /\ processed' = Append(processed,
             [named |-> TRUE, err |-> e, cnt_submit |-> cnt_submit,
              cnt_found |-> cnt_found, cnt_alternate |-> cnt_alternate,
              outcomes |-> outcomes])
  /\ pc' = "dirs"
  /\ UNCHANGED <<mode, scanVars, g_alternate_records, sent, removed, dispVars>>

\* process_history_dirs, lines 390-395: logfiles_to_process is exhausted, the
\* totals are reported and send_alternate_records is called
process_history_dirs_end ==
  /\ mode = "dirs" /\ pc = "dirs"
  /\ pc' = "flush"
  /\ UNCHANGED <<mode, scanVars, totalVars, g_alternate_records, sent, removed,
                 dispVars>>

\* process_condor_history, lines 465-476: process_history_fd has returned, the
\* counts are reported and send_alternate_records is called
process_condor_history_end ==
  /\ mode = "fd" /\ pc = "ret"
  /\ submit_count' = count_submit
  /\ found_count' = count_found
  /\ alternate_count' = count_alternate
  /\ pc' = "flush"
  /\ UNCHANGED <<mode, scanVars, logfile_errors, quarantine, processed,
                 g_alternate_records, sent, removed, dispVars>>

\* process_condor_history has no handler for an exception of the parser: it
\* leaves main and ends the run
process_condor_history_raise ==
  /\ mode = "fd" /\ pc = "raised"
  /\ pc' = "crashed"
  /\ UNCHANGED <<mode, scanVars, totalVars, g_alternate_records, sent, removed,
                 dispVars>>

\* ------------------------------------------- Alternate-Destination Dispatcher
\* send_alternate_records keeping the parent's session open
send_alternate_records_noDisconnect ==
  /\ pc = "flush"
  /\ IF g_alternate_records = <<>>
     THEN /\ pc' = "done"
          /\ UNCHANGED <<connected, keyIdx>>
     ELSE /\ connected' = connected
          /\ keyIdx' = 1
          /\ pc' = "fork"
  /\ UNCHANGED <<mode, scanVars, totalVars, g_alternate_records, sent, removed, workers>>

\* send_alternate_records, lines 1021-1023: nothing to do for an empty batch,
\* else the parent disconnects and starts on the first key
send_alternate_records ==
  /\ pc = "flush"
  /\ IF g_alternate_records = <<>>
     THEN /\ pc' = "done"
          /\ UNCHANGED <<connected, keyIdx>>
     ELSE /\ connected' = FALSE
          /\ keyIdx' = 1
          /\ pc' = "fork"
  /\ UNCHANGED <<mode, scanVars, totalVars, g_alternate_records, sent, removed, workers>>

\* a worker as os.fork() leaves it: a copy of the parent with its
\* configuration, about to enter send_alternate_records_child for the key at
\* position k; calls are the transport and configuration calls it has made
NewWorker(k) ==
  [key |-> k, pc |-> "initialize", i |-> 0, calls |-> <<>>,
   site |-> Config_SiteName, probe |-> Config_ProbeName]

\* a worker the parent has waited for
Reaped(w) == [w EXCEPT !.pc = "reaped", !.i = 0, !.calls = <<>>,
                       !.site = Config_SiteName, !.probe = Config_ProbeName]

Running(w) == w.pc \in {"initialize", "handshake", "search", "reprocess", "send"}

\* a worker that has ended: "exited" by os._exit(0) at line 1080, "failed" by
\* the handler of lines 1030-1033, "killed" by its alarm; of its state only
\* the number of records it has sent is kept
Ended(w, how) == [w EXCEPT !.pc = how, !.calls = <<>>,
                           !.site = Config_SiteName, !.probe = Config_ProbeName]

\* send_alternate_records_fork going on to the next key without os.waitpid
send_alternate_records_fork_nowait ==
  /\ pc = "fork"
  /\ workers' = Append(workers, NewWorker(keyIdx))
  /\ IF keyIdx < Len(g_alternate_records)
     THEN /\ keyIdx' = keyIdx + 1
          /\ pc' = "fork"
     ELSE /\ pc' = "wait"
          /\ UNCHANGED keyIdx
  /\ UNCHANGED <<mode, scanVars, totalVars, g_alternate_records, sent, removed,
                 connected>>

\* lines 1025-1029: os.fork(); the child sets its alarm and enters
\* send_alternate_records_child with a copy of the key's records
send_alternate_records_fork ==
  /\ pc = "fork"
  /\ workers' = Append(workers, NewWorker(keyIdx))
  /\ pc' = "wait"
  /\ UNCHANGED <<mode, scanVars, totalVars, g_alternate_records, sent, removed,
                 connected, keyIdx>>

\* a transport call of worker k: it returns and the worker moves on, or it
\* raises, which is logged (lines 1030-1033), and the worker exits
ChildCall(k, at, next, call) ==
  /\ workers[k].pc = at
  /\ \E ok \in BOOLEAN :
       workers' = IF ok
                  THEN [workers EXCEPT ![k].pc = next, ![k].calls = Append(@, call)]
                  ELSE [workers EXCEPT ![k] = Ended(@, "failed")]

\* lines 1045-1052: GratiaCore.Initialize, then setSiteName(site) and
\* setMeterName(probe) with the worker's key
child_initialize ==
  /\ \E k \in 1..Len(workers) :
       /\ workers[k].pc = "initialize"
       /\ LET key == g_alternate_records[workers[k].key].key
          IN \/ workers' = [workers EXCEPT ![k] = Ended(@, "failed")]
             \/ workers' = [workers EXCEPT ![k].pc = "handshake",
                                           ![k].calls = @ \o <<"Initialize", "setSiteName",
                                                               "setMeterName">>,
                                           ![k].site = key.site,
                                           ![k].probe = key.probe]
  /\ UNCHANGED <<mode, pc, scanVars, totalVars, g_alternate_records, sent, removed,
                 connected, keyIdx>>

\* line 1053: GratiaCore.Handshake
child_handshake ==
  /\ \E k \in 1..Len(workers) : ChildCall(k, "handshake", "search", "Handshake")
  /\ UNCHANGED <<mode, pc, scanVars, totalVars, g_alternate_records, sent, removed,
                 connected, keyIdx>>

\* lines 1054-1059: GratiaCore.SearchOutstandingRecord
child_search ==
  /\ \E k \in 1..Len(workers) :
       ChildCall(k, "search", "reprocess", "SearchOutstandingRecord")
  /\ UNCHANGED <<mode, pc, scanVars, totalVars, g_alternate_records, sent, removed,
                 connected, keyIdx>>

\* line 1060: GratiaCore.Reprocess
child_reprocess ==
  /\ \E k \in 1..Len(workers) : ChildCall(k, "reprocess", "send", "Reprocess")
  /\ UNCHANGED <<mode, pc, scanVars, totalVars, g_alternate_records, sent, removed,
                 connected, keyIdx>>

\* RecordAt walking the list from its end
RecordAt_reversed(record_list, i) == record_list[Len(record_list) + 1 - i]

\* line 1067, "for record in record_list": the record of the i-th iteration
RecordAt(record_list, i) == record_list[i]

\* lines 1069-1070: record.ProbeName(probe); record.SiteName(site)
Stamp(record, info) == [record EXCEPT !.ProbeName = info.probe, !.SiteName = info.site]

\* child_send adding to the counters of the parent
child_send_counting ==
  /\ \E k \in 1..Len(workers) :
       /\ workers[k].pc = "send"
       /\ LET record_list == g_alternate_records[workers[k].key].records
              info == g_alternate_records[workers[k].key].key
          IN IF workers[k].i < Len(record_list)
             THEN \/ /\ workers' = [workers EXCEPT ![k] = Ended(@, "failed")]
                     /\ UNCHANGED <<sent, count_found, count_submit>>
                  \/ \E resp \in Responses :
                       /\ sent' = Append(sent,
                            SendEvent(Stamp(RecordAt(record_list, workers[k].i + 1), info),
                                      resp, k))
                       /\ workers' = [workers EXCEPT ![k].i = @ + 1]
                       /\ count_found' = count_found + 1
                       /\ count_submit' = IF ResponseOK(resp) THEN count_submit + 1
                                          ELSE count_submit
             ELSE /\ workers' = [workers EXCEPT ![k] = Ended(@, "exited")]
                  /\ UNCHANGED <<sent, count_found, count_submit>>
  /\ UNCHANGED <<mode, pc, nlines, logs_found, log, fdLines, atEOF, buffer, classad, yields,
                 genFinal, added_transient, outcomes, count_alternate, totalVars,
                 g_alternate_records, removed, connected, keyIdx>>

\* lines 1067-1080: one iteration of "for record in record_list", where
\* GratiaCore.Send raises or returns a status, or os._exit(0) after the last
\* one; the counters of lines 1065-1066 are the worker's own and only logged
child_send ==
  /\ \E k \in 1..Len(workers) :
       /\ workers[k].pc = "send"
       /\ LET record_list == g_alternate_records[workers[k].key].records
              info == g_alternate_records[workers[k].key].key
          IN IF workers[k].i < Len(record_list)
             THEN \/ /\ workers' = [workers EXCEPT ![k] = Ended(@, "failed")]
                     /\ UNCHANGED sent
                  \/ \E resp \in Responses :
                       /\ sent' = Append(sent,
                            SendEvent(Stamp(RecordAt(record_list, workers[k].i + 1), info),
                                      resp, k))
                       /\ workers' = [workers EXCEPT ![k].i = @ + 1]
             ELSE /\ workers' = [workers EXCEPT ![k] = Ended(@, "exited")]
                  /\ UNCHANGED sent
  /\ UNCHANGED <<mode, pc, scanVars, totalVars, g_alternate_records, removed,
                 connected, keyIdx>>

\* child_alarm with an alarm that is set only once the worker sends
child_alarm_late ==
  /\ \E k \in 1..Len(workers) :
       /\ workers[k].pc = "send"
       /\ workers' = [workers EXCEPT ![k] = Ended(@, "killed")]
  /\ UNCHANGED <<mode, pc, scanVars, totalVars, g_alternate_records, sent, removed,
                 connected, keyIdx>>

\* line 1028: the SIGALRM of signal.alarm(5*60) kills a worker that is still
\* running
child_alarm ==
  /\ \E k \in 1..Len(workers) :
       /\ Running(workers[k])
       /\ workers' = [workers EXCEPT ![k] = Ended(@, "killed")]
  /\ UNCHANGED <<mode, pc, scanVars, totalVars, g_alternate_records, sent, removed,
                 connected, keyIdx>>

\* send_alternate_records_wait dropping the records of the key it waited for
send_alternate_records_wait_consume ==
  /\ pc = "wait" /\ workers[Len(workers)].pc \in {"exited", "failed", "killed"}
  /\ workers' = [workers EXCEPT ![Len(workers)] = Reaped(@)]
  /\ g_alternate_records' = [g_alternate_records EXCEPT ![keyIdx].records = <<>>]
  /\ IF keyIdx < Len(g_alternate_records)
     THEN /\ keyIdx' = keyIdx + 1
          /\ pc' = "fork"
     ELSE /\ pc' = "done"
          /\ UNCHANGED keyIdx
  /\ UNCHANGED <<mode, scanVars, totalVars, sent, removed, connected>>

\* lines 1036-1037: os.waitpid(pid, 0) returns when the worker forked last has
\* ended, however it ended; the loop goes to the next key or ends
send_alternate_records_wait ==
  /\ pc = "wait" /\ workers[Len(workers)].pc \in {"exited", "failed", "killed"}
  /\ workers' = [workers EXCEPT ![Len(workers)] = Reaped(@)]
  /\ IF keyIdx < Len(g_alternate_records)
     THEN /\ keyIdx' = keyIdx + 1
          /\ pc' = "fork"
     ELSE /\ pc' = "done"
          /\ UNCHANGED keyIdx
  /\ UNCHANGED <<mode, scanVars, totalVars, g_alternate_records, sent, removed,
                 connected>>

Next ==
  \/ process_history_dirs_next
  \/ fd_to_classad_line
  \/ fd_to_classad_eof
  \/ process_history_file_body
  \/ process_history_fd_body
  \/ process_history_dirs_account
  \/ process_history_dirs_end
  \/ process_condor_history_end
  \/ process_condor_history_raise
  \/ send_alternate_records
  \/ send_alternate_records_fork
  \/ child_initialize
  \/ child_handshake
  \/ child_search
  \/ child_reprocess
  \/ child_send
  \/ child_alarm
  \/ send_alternate_records_wait

Spec == Init /\ [][Next]_vars

\* the scheduling of the dispatcher: the parent, which is the only process it
\* waits in, takes each of its steps when it can, and the alarm of a worker
\* that keeps running goes off; a transport call of a worker may block for
\* ever, so no step of send_alternate_records_child is assumed to be taken
Fairness ==
  /\ WF_vars(send_alternate_records)
  /\ WF_vars(send_alternate_records_fork)
  /\ WF_vars(send_alternate_records_wait)
  /\ WF_vars(child_alarm)

LiveSpec == Spec /\ Fairness

\* ------------------------------------------------ runs over a single record
\* the values an attribute of the record takes: <<>> is "not in the ClassAd"
RecordChoices ==
  [ClusterId : {<<>>, <<1>>},
   Cmd : {<<>>, << <<"usr", "bin", "condor_dagman">> >>, << <<"condor_dagman", "run">> >>},
   CompletionDate : {<<>>, <<0>>, <<min_start_time - 1>>, <<min_start_time>>},
   EnteredCurrentStatus : {<<>>, <<min_start_time - 1>>, <<min_start_time>>},
   GlobalJobId : {<<>>, << <<"G", "#", "123.0", "#", "x">> >>},
   RemoteUserCpu : {<<>>, <<DurationLimit - 1>>, <<DurationLimit>>},
   RemoteSysCpu : {<<>>, <<DurationLimit + 100000000>>},
   CumulativeSlotTime : {<<>>, <<-1>>, <<1999998>>, <<1999999>>},
   GratiaSiteName : {<<>>, <<SiteVal("bytes", "A")>>, <<SiteVal("str", "A")>>}]

AdOf(c) == [a \in {x \in DOMAIN c : c[x] # <<>>} |-> c[a][1]]

RecordAds == {AdOf(c) : c \in RecordChoices}

\* the ClassAds of the runs that look at the grid classification
GridChoices ==
  [ClusterId : {<<1>>},
   CompletionDate : {<<min_start_time>>},
   GratiaJobOrigin : {<<>>, <<"GRAM">>, <<"condor">>},
   JobUniverse : {<<>>, <<5>>, <<7>>, <<12>>},
   RoutedToJobId : {<<>>, <<"2.0">>},
   MachineAttrGLIDEIN_ResourceName0 : {<<>>, << <<"site", "CF">> >>, << <<"Local Job">> >>},
   MATCH_EXP_JOBGLIDEIN_ResourceName :
     {<<>>, << <<"site", "Flock">> >>, << <<"CF">> >>, << <<"site", "CF", "x">> >>}]

GridAds == {AdOf(c) : c \in GridChoices}

\* the ClassAds of the runs that look at the job id and the durations
DurationChoices ==
  [ClusterId : {<<1>>},
   CompletionDate : {<<min_start_time>>},
   ProcId : {<<>>, <<0>>, <<3>>},
   RemoteWallClockTime : {<<>>, <<10>>, <<-10>>},
   RemoteUserCpu : {<<>>, <<5>>, <<-5>>},
   LocalUserCpu : {<<>>, <<1>>},
   RemoteSysCpu : {<<>>, <<2>>, <<-2>>},
   LocalSysCpu : {<<>>, <<1>>},
   GratiaSiteName : {<<>>, <<SiteVal("bytes", "A")>>}]

DurationAds == {AdOf(c) : c \in DurationChoices}

\* a run whose first source holds one record of ads, written on one line,
\* when that line has been read: a logfile of process_history_dirs or the
\* stream of process_condor_history
SingleRecordInit(ads) ==
  /\ mode \in {"dirs", "fd"}
  /\ pc = "gen"
  /\ nlines = 1
  /\ logs_found = IF mode = "dirs" THEN 1 ELSE 0
  /\ log = IF mode = "dirs" THEN <<"history", ".", "1", ".", "2">> ELSE <<>>
  /\ \E x \in ads :
       /\ fdLines = <<AdLine(x)>>
       /\ buffer = <<AdLine(x)>>
  /\ atEOF = FALSE
  /\ classad = EmptyAd
  /\ yields = 0
  /\ genFinal = FALSE
  /\ added_transient = FALSE
  /\ outcomes = <<>>
  /\ count_submit = 0 /\ count_found = 0 /\ count_alternate = 0
  /\ submit_count = 0 /\ found_count = 0 /\ alternate_count = 0
  /\ logfile_errors = 0
  /\ quarantine = {}
  /\ processed = <<>>
  /\ g_alternate_records = <<>>
  /\ sent = <<>>
  /\ removed = <<>>
  /\ connected = TRUE
  /\ keyIdx = 0
  /\ workers = <<>>

RecordInit == SingleRecordInit(RecordAds)
GridInit == SingleRecordInit(GridAds)
DurationInit == SingleRecordInit(DurationAds)

\* the source ends after that line
RecordNext ==
  \/ fd_to_classad_eof
  \/ process_history_file_body
  \/ process_history_fd_body
  \/ process_history_dirs_account
  \/ process_condor_history_end

RecordSpec == RecordInit /\ [][RecordNext]_vars
GridSpec == GridInit /\ [][RecordNext]_vars
DurationSpec == DurationInit /\ [][RecordNext]_vars

\* ----------------------------------------------------------------- properties
\* the run's configured default destination
DefaultKey == [probe |-> Config_ProbeName, site |-> Config_SiteName]

\* the record the loop body is about to handle, its identity and what the
\* normalizer makes of it
Pending == pc = "body"
PendingId == <<logs_found, count_found + 1>>
PendingJUR == classadToJUR(classad, PendingId)

\* the loop goes on with the same source: the generator is resumed, or the
\* source ends normally after the generator's last yield
LoopGoesOn ==
  /\ logs_found' = logs_found
  /\ pc' \in {"gen", "ret"}
  /\ (~genFinal => pc' = "gen")

\* positions <<i, k>> of the batch that hold the record id
BatchPlaces(batch, id) ==
  {p \in UNION {{<<i, k>> : k \in 1..Len(batch[i].records)} : i \in 1..Len(batch)} :
     batch[p[1]].records[p[2]].id = id}

IsPrefix(s, t) == Len(s) <= Len(t) /\ SubSeq(t, 1, Len(s)) = s

C2_QuarantineIff ==
  \A i \in 1..Len(processed) :
    processed[i].named =>
      ( (i \in quarantine) <=>
        ~( /\ processed[i].cnt_submit + processed[i].cnt_alternate = processed[i].cnt_found
           /\ (processed[i].cnt_submit > 0 \/ processed[i].cnt_alternate > 0) ) )

\* a scan that ended with a quarantined source of found = 0 and a source that
\* was not quarantined
C2_Witness ==
  /\ mode = "dirs" /\ pc = "done"
  /\ \E i \in 1..Len(processed) :
       processed[i].named /\ processed[i].cnt_found = 0 /\ i \in quarantine
  /\ \E i \in 1..Len(processed) :
       processed[i].named /\ processed[i].cnt_found > 0 /\ i \notin quarantine

\* a stream of blocks separated by single blank lines, with or without a
\* blank line after the last block
WellFormed(ls) ==
  /\ \A i \in 1..Len(ls) : ls[i].kind # "bad"
  /\ (ls # <<>> => ls[1].kind # "blank")
  /\ \A i \in 1..(Len(ls) - 1) : ~(ls[i].kind = "blank" /\ ls[i + 1].kind = "blank")

\* the number of blank-line-delimited blocks of a stream
NumBlocks(ls) ==
  Cardinality({i \in 1..Len(ls) :
                 ls[i].kind # "blank" /\ (i = 1 \/ ls[i - 1].kind = "blank")})

\* C3: when a well-formed stream has been read to its end, fd_to_classad has
\* yielded exactly one record per block (none for an empty stream).
\* fd_to_classad yields the buffer at end-of-stream whether or not it is empty.
C3_OneRecordPerBlock ==
  (atEOF /\ WellFormed(fdLines)) => yields = NumBlocks(fdLines)

\* C4: a failure of the parser on one block does not end the stream: the
\* generator is left by the exception only when no line is left to read.
\* The exception of parseOne leaves fd_to_classad at the failing block.
C4_ParserFailureGoesOn ==
  pc = "raised" => atEOF

\* C5: a record for which the normalizer raises its hard error (no ClusterId)
\* is counted as found, not as submitted or alternate, is neither sent nor
\* batched, and the loop goes on with the same source.
C5_HardErrorSkipped ==
  [][ ( /\ Pending
        /\ DOMAIN classad # {}
        /\ ~Has(classad, "ClusterId") )
      => /\ count_found' = count_found + 1
         /\ count_submit' = count_submit
         /\ count_alternate' = count_alternate
         /\ sent' = sent
         /\ g_alternate_records' = g_alternate_records
         /\ LoopGoesOn
    ]_vars

\* a record without ClusterId was skipped and the next record of the source
\* was sent
C5_Witness ==
  /\ Len(fdLines) = 3
  /\ fdLines[1] = AdLine(adNoId) /\ fdLines[2] = BlankLine /\ fdLines[3] = AdLine(adFresh)
  /\ count_found = 2 /\ count_submit = 1 /\ count_alternate = 0
  /\ Len(sent) = 1 /\ sent[1].id = <<logs_found, 2>>

\* C6: a record the normalizer ignores (Cmd is condor_dagman) is counted as
\* found and as submitted, is neither sent nor batched, whatever its age, and
\* the loop goes on.
C6_IgnoredCountsAsSubmitted ==
  [][ ( /\ Pending
        /\ Has(classad, "ClusterId")
        /\ IsDagman(classad) )
      => /\ count_found' = count_found + 1
         /\ count_submit' = count_submit + 1
         /\ count_alternate' = count_alternate
         /\ sent' = sent
         /\ g_alternate_records' = g_alternate_records
         /\ LoopGoesOn
    ]_vars

\* an ignored record older than the age floor was counted as submitted
C6_Witness ==
  /\ pc \in {"gen", "ret"}
  /\ fdLines = <<AdLine(adDagman), BlankLine>>
  /\ IsDagman(classad)
  /\ CompletionDate(classad) < min_start_time
  /\ count_found = 1 /\ count_submit = 1
  /\ sent = <<>> /\ g_alternate_records = <<>>

\* the status begins with "OK"
C7_BeginsOK(resp) == Len(resp) >= 2 /\ resp[1] = "O" /\ resp[2] = "K"

\* C7: for a record routed directly (destination equal to the default) the
\* parent calls Send exactly once, and counts it as submitted if and only if the
\* status begins with "OK"; the parent sends no record a second time.
C7_DirectSentOnce ==
  [][ /\ ( /\ Pending
           /\ PendingJUR.outcome = "ok"
           /\ ~TooOld(classad)
           /\ KeyOf(PendingJUR.r) = DefaultKey )
         => /\ Len(sent') = Len(sent) + 1
            /\ IsPrefix(sent, sent')
            /\ sent'[Len(sent')].id = PendingId
            /\ sent'[Len(sent')].by = 0
            /\ count_found' = count_found + 1
            /\ count_alternate' = count_alternate
            /\ g_alternate_records' = g_alternate_records
            /\ count_submit' = IF C7_BeginsOK(sent'[Len(sent')].resp)
                               THEN count_submit + 1 ELSE count_submit
      /\ (Len(sent') > Len(sent) /\ sent'[Len(sent')].by = 0)
         => \A k \in 1..Len(sent) :
              ~(sent[k].by = 0 /\ sent[k].id = sent'[Len(sent')].id)
    ]_vars

\* two direct records of one source, the first accepted with an "OK" status,
\* the second answered with another status
C7_Witness ==
  /\ Len(sent) = 2
  /\ sent[1].by = 0 /\ sent[2].by = 0
  /\ sent[1].ProbeName = Config_ProbeName /\ sent[1].SiteName = Config_SiteName
  /\ C7_BeginsOK(sent[1].resp) /\ ~C7_BeginsOK(sent[2].resp)
  /\ count_found = 2 /\ count_submit = 1

\* C8: a source whose processing raises a parse-level error adds nothing to
\* the totals, is quarantined, and the scan goes to the next source.
C8_ParseErrorQuarantined ==
  [][ (mode = "dirs" /\ pc = "raised")
      => /\ submit_count' = submit_count
         /\ found_count' = found_count
         /\ alternate_count' = alternate_count
         /\ logs_found \in quarantine'
         /\ logfile_errors' = logfile_errors + 1
         /\ pc' = "dirs"
    ]_vars

\* a source failed with a parse-level error after one of its records had been
\* sent, and the source after it was processed
C8_Witness ==
  /\ Len(processed) = 2
  /\ processed[1].named /\ processed[1].err /\ Len(processed[1].outcomes) = 1
  /\ processed[2].named /\ ~processed[2].err /\ processed[2].cnt_found = 1
  /\ found_count = 1
  /\ 1 \in quarantine

\* C9: a source in which every record was submitted with OK, ignored, routed
\* to the Alternate Batch or dropped as stale is not quarantined.
\* A stale record is counted as found only, so submitted + alternate # found.
C9_StaleNotQuarantined ==
  \A i \in 1..Len(processed) :
    ( /\ processed[i].named /\ ~processed[i].err
      /\ processed[i].outcomes # <<>>
      /\ \A k \in 1..Len(processed[i].outcomes) :
           processed[i].outcomes[k] \in {"sent_ok", "ignore", "alternate", "stale"} )
    => i \notin quarantine

\* C10: an empty record is no error: a source whose records were submitted
\* with OK, ignored or routed to the Alternate Batch, and that also yielded
\* empty records, is not quarantined.
\* An empty record is counted as found only, so submitted + alternate # found.
C10_EmptyNotQuarantined ==
  \A i \in 1..Len(processed) :
    ( /\ processed[i].named /\ ~processed[i].err
      /\ \E k \in 1..Len(processed[i].outcomes) : processed[i].outcomes[k] # "empty"
      /\ \A k \in 1..Len(processed[i].outcomes) :
           processed[i].outcomes[k] \in {"sent_ok", "ignore", "alternate", "empty"} )
    => i \notin quarantine

\* the ClassAd the record of a single-record run was written as
RecordRead == fdLines[1].ad

\* C11: the time the age floor looks at is CompletionDate, or
\* EnteredCurrentStatus (0 when absent) when CompletionDate is zero or absent;
\* a normalized record is dropped, counted in neither the submitted nor the
\* alternate count, exactly when that time is strictly below min_start_time,
\* and is routed (batched or sent) otherwise, so also exactly at the floor.
C11_AgeFloor ==
  [][ ( /\ Pending
        /\ DOMAIN classad # {}
        /\ PendingJUR.outcome = "ok" )
      => LET t == IF Has(classad, "CompletionDate") /\ classad["CompletionDate"] # 0
                  THEN classad["CompletionDate"]
                  ELSE IF Has(classad, "EnteredCurrentStatus")
                  THEN classad["EnteredCurrentStatus"]
                  ELSE 0
         IN IF t < min_start_time
            THEN /\ count_submit' = count_submit
                 /\ count_alternate' = count_alternate
                 /\ sent' = sent
                 /\ g_alternate_records' = g_alternate_records
            ELSE \/ /\ count_alternate' = count_alternate + 1
                    /\ BatchPlaces(g_alternate_records', PendingId) # {}
                    /\ sent' = sent
                 \/ /\ Len(sent') = Len(sent) + 1
                    /\ sent'[Len(sent')].id = PendingId
                    /\ g_alternate_records' = g_alternate_records ]_vars

\* a record whose CompletionDate is zero and whose EnteredCurrentStatus is
\* exactly the floor has been routed
C11_Witness ==
  /\ outcomes # <<>>
  /\ outcomes[Len(outcomes)] \in {"alternate", "sent_ok", "sent_fail"}
  /\ Has(RecordRead, "CompletionDate")
  /\ RecordRead["CompletionDate"] = 0
  /\ Get(RecordRead, "EnteredCurrentStatus", 0) = min_start_time

\* positions of the parent inside and after send_alternate_records
Dispatching == {"fork", "wait", "done"}

\* the Send calls of the workers
WorkerSends == SelectSeq(sent, LAMBDA e : e.by > 0)

C13_OneWorkerAtATime ==
  /\ Len(workers) <= Len(g_alternate_records)
  /\ \A k \in 1..Len(workers) : workers[k].key = k
  /\ Cardinality({k \in 1..Len(workers) : Running(workers[k])}) <= 1
  /\ \A k \in 1..Len(workers) : k < Len(workers) => workers[k].pc = "reaped"
  /\ pc = "done" => Len(workers) = Len(g_alternate_records)

\* the worker of the second key is running, the first one has ended and has
\* been waited for
C13_Witness ==
  /\ Len(workers) = 2
  /\ workers[1].pc = "reaped"
  /\ Running(workers[2])

\* C14: whatever a worker does, and however it ends (an exception at any of
\* its steps, its alarm, or its normal exit), only that worker changes: the
\* counters and the scan state of the parent and the other workers stay as
\* they are; and when the parent's wait returns it goes on to the next key,
\* for which it starts a worker, or returns after the last key.
C14_WorkerFailureIsLocal ==
  [][ /\ (pc' = pc /\ workers' # workers) =>
            /\ scanVars' = scanVars
            /\ totalVars' = totalVars
            /\ g_alternate_records' = g_alternate_records
            /\ Len(workers') = Len(workers)
            /\ Cardinality({k \in 1..Len(workers) : workers'[k] # workers[k]}) = 1
      /\ (pc = "wait" /\ pc' # "wait") =>
            /\ workers[Len(workers)].pc \in {"exited", "failed", "killed"}
            /\ IF keyIdx < Len(g_alternate_records)
               THEN pc' = "fork" /\ keyIdx' = keyIdx + 1
               ELSE pc' = "done"
      /\ (pc = "fork" /\ pc' # "fork") =>
            /\ workers' = Append(workers, NewWorker(keyIdx))
            /\ pc' = "wait" ]_vars

\* the worker of the first key ended without a single Send, and the worker
\* of the second key has sent a record
C14_Witness ==
  /\ Len(workers) = 2
  /\ workers[1].pc = "reaped"
  /\ \A n \in 1..Len(sent) : sent[n].by # 1
  /\ \E n \in 1..Len(sent) : sent[n].by = 2

\* C15: whenever a worker exists the parent has disconnected its session, so
\* the disconnect precedes the first fork; and once the parent has
\* disconnected, every further Send of the run is one of a worker.
C15_DisconnectBeforeWorkers ==
  [][ /\ workers' # <<>> => ~connected'
      /\ ~connected =>
            \/ sent' = sent
            \/ /\ Len(sent') = Len(sent) + 1
               /\ SubSeq(sent', 1, Len(sent)) = sent
               /\ sent'[Len(sent')].by > 0 ]_vars

\* the parent has sent a record itself, has disconnected, and a worker is
\* sending
C15_Witness ==
  /\ ~connected
  /\ \E n \in 1..Len(sent) : sent[n].by = 0
  /\ \E n \in 1..Len(sent) : sent[n].by > 0
  /\ \E k \in 1..Len(workers) : Running(workers[k])

\* the calls send_alternate_records_child makes before its first Send
ChildPrologue ==
  <<"Initialize", "setSiteName", "setMeterName", "Handshake",
    "SearchOutstandingRecord", "Reprocess">>

\* the Send calls worker k has made
SendsBy(k) == SelectSeq(sent, LAMBDA e : e.by = k)

\* C16: a worker makes its calls in the order Initialize, setSiteName,
\* setMeterName, Handshake, SearchOutstandingRecord, Reprocess, and sends only
\* after all of them, configured with the site and probe of its key; what it
\* has sent is a prefix of its key's records, in the order they were
\* appended, each once, each stamped with the key's probe and site, and
\* nothing else; a worker that has run to its normal exit has sent them all.
C16_WorkerSendsItsKey ==
  \A k \in 1..Len(workers) :
    LET w == workers[k]
        info == g_alternate_records[w.key].key
        record_list == g_alternate_records[w.key].records
        mine == SendsBy(k)
    IN /\ IsPrefix(w.calls, ChildPrologue)
       /\ w.pc = "send" =>
             /\ w.calls = ChildPrologue
             /\ w.site = info.site
             /\ w.probe = info.probe
       /\ w.pc # "reaped" => Len(mine) = w.i
       /\ (w.i > 0 /\ Running(w)) => w.pc = "send"
       /\ Len(mine) <= Len(record_list)
       /\ \A n \in 1..Len(mine) :
             /\ mine[n].id = record_list[n].id
             /\ mine[n].ProbeName = info.probe
             /\ mine[n].SiteName = info.site
       /\ w.pc = "exited" => Len(mine) = Len(record_list)

\* a worker has sent the two records of its key and exited
C16_Witness ==
  \E k \in 1..Len(workers) :
    /\ workers[k].pc = "exited"
    /\ Len(g_alternate_records[workers[k].key].records) = 2
    /\ Len(SendsBy(k)) = 2

\* C17: under the fairness of LiveSpec (the alarm of a running worker goes
\* off, the transport calls are the only steps that may block) a dispatcher
\* that has been invoked returns, with one worker started for every key and
\* every worker ended and waited for; and the parent does not leave its wait
\* while the worker it waits for is running: it has no timeout of its own.
C17_DispatcherReturns ==
  /\ (pc = "flush") ~>
        ( /\ pc = "done"
          /\ Len(workers) = Len(g_alternate_records)
          /\ \A k \in 1..Len(workers) : workers[k].pc = "reaped" )
  /\ [][ (pc = "wait" /\ Running(workers[Len(workers)])) => pc' = "wait" ]_vars

\* a worker in the middle of its sends has been killed by its alarm, and the
\* parent is waiting for it
C17_Witness ==
  /\ pc = "wait"
  /\ workers[Len(workers)].pc = "killed"
  /\ workers[Len(workers)].i = 1
  /\ Len(g_alternate_records[keyIdx].records) = 2

\* C18 (as claimed): a record whose Cmd has the file name condor_dagman is
\* signalled as ignore (and counted as submitted), never as a hard error,
\* whatever other attributes it has or lacks.
C18_DagmanAlwaysIgnored ==
  [][ ( /\ Pending
        /\ DOMAIN classad # {}
        /\ Has(classad, "Cmd")
        /\ classad["Cmd"][Len(classad["Cmd"])] = "condor_dagman" )
      => /\ outcomes' = Append(outcomes, "ignore")
         /\ count_submit' = count_submit + 1 ]_vars

\* C18 (amended): a record that has a ClusterId and whose Cmd has the file name
\* condor_dagman is signalled as ignore, never as a hard error, whatever its
\* other attributes; nothing of it is sent or batched; the transient source
\* file it references, which is the logfile when the record is the first
\* non-empty one of a file, is removed by exactly one RemoveFile call, and a
\* record that references none (stream scan) removes nothing.
C18_DagmanWithIdIgnored ==
  [][ ( /\ Pending
        /\ DOMAIN classad # {}
        /\ Has(classad, "ClusterId")
        /\ Has(classad, "Cmd")
        /\ classad["Cmd"][Len(classad["Cmd"])] = "condor_dagman" )
      => /\ outcomes' = Append(outcomes, "ignore")
         /\ count_submit' = count_submit + 1
         /\ sent' = sent
         /\ g_alternate_records' = g_alternate_records
         /\ removed' = IF mode = "dirs" /\ ~added_transient
                       THEN Append(removed, logs_found)
                       ELSE removed ]_vars

\* a condor_dagman record that has durations the normalizer would fail on has
\* been ignored, and its logfile has been removed once
C18_Witness ==
  /\ outcomes = <<"ignore">>
  /\ removed = <<logs_found>>
  /\ mode = "dirs"
  /\ Has(RecordRead, "RemoteUserCpu")
  /\ RecordRead["RemoteUserCpu"] = DurationLimit
  /\ ~Has(RecordRead, "CumulativeSlotTime")

\* C19: the record the parser yields for a ClassAd with a GlobalJobId is that
\* ClassAd with one attribute added, UniqGlobalJobId, whose value is "condor."
\* followed by the GlobalJobId; a ClassAd without GlobalJobId is yielded as it
\* was read, nothing added and nothing changed.
C19_UniqueId ==
  (pc = "body" /\ yields = 1 /\ Len(fdLines) = 1) =>
     IF "GlobalJobId" \in DOMAIN RecordRead
     THEN /\ DOMAIN classad = DOMAIN RecordRead \cup {"UniqGlobalJobId"}
          /\ \A a \in DOMAIN RecordRead : classad[a] = RecordRead[a]
          /\ Len(classad["UniqGlobalJobId"]) = Len(RecordRead["GlobalJobId"]) + 1
          /\ classad["UniqGlobalJobId"][1] = "condor."
          /\ \A n \in 1..Len(RecordRead["GlobalJobId"]) :
                classad["UniqGlobalJobId"][n + 1] = RecordRead["GlobalJobId"][n]
     ELSE classad = RecordRead

\* a record with a GlobalJobId has been yielded with its unique id
C19_Witness ==
  /\ pc = "body"
  /\ Has(RecordRead, "GlobalJobId")
  /\ Has(classad, "UniqGlobalJobId")
  /\ classad["UniqGlobalJobId"] = <<"condor.", "G", "#", "123.0", "#", "x">>

\* C20: for a record the normalizer gets to convert (it has a ClusterId and
\* is not a condor_dagman one), an implausible CPU duration is never fatal:
\* the record is not a hard error, also when it has no CumulativeSlotTime;
\* and each of RemoteUserCpu and RemoteSysCpu it has is reported as zero
\* exactly when its value is at least 2000000000 and value /
\* (CumulativeSlotTime + 1) is above 1000, and with its own value otherwise.
C20_InvalidDurationZeroed ==
  [][ ( /\ Pending
        /\ DOMAIN classad # {}
        /\ Has(classad, "ClusterId")
        /\ ~IsDagman(classad) )
      => /\ outcomes'[Len(outcomes')] # "error"
         /\ PendingJUR.outcome = "ok"
         /\ \A f \in {"RemoteUserCpu", "RemoteSysCpu"} :
              ( /\ Has(classad, f)
                /\ Has(classad, "CumulativeSlotTime")
                /\ classad["CumulativeSlotTime"] >= 0 )
              => PendingJUR.r.TimeDuration[f] =
                   IF /\ classad[f] >= 2000000000
                      /\ classad[f] > 1000 * (classad["CumulativeSlotTime"] + 1)
                   THEN 0
                   ELSE classad[f] ]_vars

\* the rule of invalidDuration for the records that have a CumulativeSlotTime
\* of at least 0: none of them is a hard error, and a remote CPU duration is
\* reported as zero exactly when it is implausible
InvalidDurationWithSlotTime ==
  [][ ( /\ Pending
        /\ DOMAIN classad # {}
        /\ Has(classad, "ClusterId")
        /\ ~IsDagman(classad)
        /\ Has(classad, "CumulativeSlotTime")
        /\ classad["CumulativeSlotTime"] >= 0 )
      => /\ outcomes'[Len(outcomes')] # "error"
         /\ \A f \in {"RemoteUserCpu", "RemoteSysCpu"} :
              Has(classad, f)
              => PendingJUR.r.TimeDuration[f] =
                   IF /\ classad[f] >= 2000000000
                      /\ classad[f] > 1000 * (classad["CumulativeSlotTime"] + 1)
                   THEN 0
                   ELSE classad[f] ]_vars

\* the Grid a record ends with: the value of the last r.Grid call, <<>> when
\* there was none
FinalGrid(r) == IF r.Grid = <<>> THEN <<>> ELSE <<r.Grid[Len(r.Grid)]>>

\* what the record read says about its origin
ReadResource ==
  IF Get(RecordRead, "MachineAttrGLIDEIN_ResourceName0", <<>>) # <<>>
  THEN RecordRead["MachineAttrGLIDEIN_ResourceName0"]
  ELSE Get(RecordRead, "MATCH_EXP_JOBGLIDEIN_ResourceName", <<>>)
ReadCampus ==
  /\ Len(ReadResource) >= 2
  /\ ReadResource[Len(ReadResource)] \in {"CF", "Flock"}
ReadLocalUniverse ==
  Has(RecordRead, "JobUniverse") /\ RecordRead["JobUniverse"] \in {7, 12}

\* C21 (as claimed): the final Grid of a normalized record is "OSG" whenever
\* GratiaJobOrigin is "GRAM"; otherwise "Local" when GratiaJobOrigin is
\* present, JobUniverse is 7 or 12, the record has RoutedToJobId, or the
\* resource name ends in -CF or -Flock or is "Local Job"; and none otherwise.
C21_GridAsClaimed ==
  (Pending /\ PendingJUR.outcome = "ok") =>
     FinalGrid(PendingJUR.r) =
       IF Get(RecordRead, "GratiaJobOrigin", "") = "GRAM" THEN <<"OSG">>
       ELSE IF \/ Has(RecordRead, "GratiaJobOrigin")
               \/ ReadLocalUniverse
               \/ Has(RecordRead, "RoutedToJobId")
               \/ ReadCampus
               \/ ReadResource = <<"Local Job">>
       THEN <<"Local">>
       ELSE <<>>

\* C21 (amended): the final Grid of a normalized record is that of the last
\* rule that applies, in the order: GratiaJobOrigin ("OSG" for "GRAM", else
\* "Local"), the resource name ("Campus" when it ends in -CF or -Flock,
\* "Local" when it is "Local Job"), JobUniverse 7 or 12 ("Local"),
\* RoutedToJobId ("Local"); and none when no rule applies.
C21_GridLastRule ==
  (Pending /\ PendingJUR.outcome = "ok") =>
     FinalGrid(PendingJUR.r) =
       IF Has(RecordRead, "RoutedToJobId") \/ ReadLocalUniverse THEN <<"Local">>
       ELSE IF ReadCampus THEN <<"Campus">>
       ELSE IF ReadResource = <<"Local Job">> THEN <<"Local">>
       ELSE IF Get(RecordRead, "GratiaJobOrigin", "") = "GRAM" THEN <<"OSG">>
       ELSE IF Has(RecordRead, "GratiaJobOrigin") THEN <<"Local">>
       ELSE <<>>

\* a record of GRAM origin with a campus factory resource name is about to be
\* routed, classified "OSG" first and "Campus" in the end
C21_Witness ==
  /\ Pending
  /\ PendingJUR.outcome = "ok"
  /\ Get(RecordRead, "GratiaJobOrigin", "") = "GRAM"
  /\ PendingJUR.r.Grid = <<"OSG", "Campus">>

\* C22: a normalized record whose GratiaSiteName evaluates to a value v has
\* the destination (probe name "<default probe>-v", site name v); a record
\* without GratiaSiteName has the run's configured default destination.
C22_OverrideDestination ==
  (Pending /\ PendingJUR.outcome = "ok") =>
     KeyOf(PendingJUR.r) =
       IF Has(RecordRead, "GratiaSiteName")
       THEN [probe |-> Config_ProbeName \o <<RecordRead["GratiaSiteName"].val>>,
             site |-> RecordRead["GratiaSiteName"].val]
       ELSE DefaultKey

\* C23: every record the normalizer emits has a non-empty local job id,
\* "<ClusterId>.<ProcId>" for a positive ProcId and the ClusterId otherwise,
\* has a destination, and has no negative duration: not the wall duration,
\* not a remote or local user or system CPU duration, not a CPU total; also
\* when the ClassAd has negative duration attributes.
C23_EmittedRecordSane ==
  (Pending /\ PendingJUR.outcome = "ok") =>
     LET r == PendingJUR.r
     IN /\ r.LocalJobId # <<>>
        /\ r.LocalJobId = IF Has(RecordRead, "ProcId") /\ RecordRead["ProcId"] > 0
                          THEN <<RecordRead["ClusterId"], RecordRead["ProcId"]>>
                          ELSE <<RecordRead["ClusterId"]>>
        /\ r.ProbeName # <<>>
        /\ r.SiteName # ""
        /\ \A n \in 1..Len(r.WallDuration) : r.WallDuration[n] >= 0
        /\ \A f \in DOMAIN r.TimeDuration : r.TimeDuration[f] >= 0
        /\ r.SysCpuTotal >= 0
        /\ r.UserCpuTotal >= 0

\* the part of C23 about the identities of the record (not a claim of its
\* own): the local job id and the destination are always there
EmittedRecordHasIds ==
  (Pending /\ PendingJUR.outcome = "ok") =>
     LET r == PendingJUR.r
     IN /\ r.LocalJobId = IF Has(RecordRead, "ProcId") /\ RecordRead["ProcId"] > 0
                          THEN <<RecordRead["ClusterId"], RecordRead["ProcId"]>>
                          ELSE <<RecordRead["ClusterId"]>>
        /\ r.ProbeName # <<>>
        /\ r.SiteName # ""

\* C24: of a directory's entries, exactly those named history.<digits>.<digits>,
\* with or without a "#"-delimited prefix before the digits, are taken by the
\* scan, and each of them is then processed as a source (process_history_file
\* is called for it); a name that fails the second validation is skipped with
\* the found, submitted and alternate counters and the quarantine unchanged.
C24_QueuedThenProcessed ==
  [][ logs_found' = logs_found + 1 =>
        /\ log' \in { name \in DirEntries : logfile_re(name) }
        /\ pc' \in {"gen", "ret"}
        /\ ~condor_history_re(log') =>
             UNCHANGED <<found_count, submit_count, alternate_count, quarantine>>
    ]_vars

\* the second half of C24 alone (not a claim of its own): a name that fails
\* condor_history_re is skipped, and nothing is counted or quarantined for it
SkippedNameLeavesNoTrace ==
  [][ (logs_found' = logs_found + 1 /\ ~condor_history_re(log')) =>
        /\ pc' = "dirs"
        /\ UNCHANGED <<found_count, submit_count, alternate_count,
                       logfile_errors, quarantine>>
    ]_vars

RECURSIVE SumTo(_, _)
SumTo(f, n) == IF n = 0 THEN 0 ELSE f[n] + SumTo(f, n - 1)

\* what happened in the sources of the scan so far: the records the Parser
\* yielded, the records ignored by the normalizer, the direct Sends that
\* returned an OK status, and the records held in the Alternate Batch
RecordsYielded ==
  SumTo([i \in 1..Len(processed) |-> Len(processed[i].outcomes)], Len(processed))
RecordsIgnored ==
  SumTo([i \in 1..Len(processed) |->
           Cardinality({k \in 1..Len(processed[i].outcomes) :
                          processed[i].outcomes[k] = "ignore"})], Len(processed))
DirectSendsOK ==
  Cardinality({k \in 1..Len(sent) : sent[k].by = 0 /\ ResponseOK(sent[k].resp)})
RecordsBatched ==
  SumTo([i \in 1..Len(g_alternate_records) |-> Len(g_alternate_records[i].records)],
        Len(g_alternate_records))

\* C26: when a directory scan ends, the totals it reports agree with what
\* happened in all its sources, those that raised a parse error included:
\* submitted is the number of direct Sends answered OK plus the number of
\* ignored records, found is the number of records the Parser yielded, and
\* alternate is the number of records in the Alternate Batch.
C26_TotalsAgree ==
  (mode = "dirs" /\ pc = "flush") =>
     /\ submit_count = DirectSendsOK + RecordsIgnored
     /\ found_count = RecordsYielded
     /\ alternate_count = RecordsBatched

\* C26 for the scans in which no source raised (not a claim of its own)
TotalsAgreeWithoutError ==
  (mode = "dirs" /\ pc = "flush" /\ \A i \in 1..Len(processed) : ~processed[i].err) =>
     /\ submit_count = DirectSendsOK + RecordsIgnored
     /\ found_count = RecordsYielded
     /\ alternate_count = RecordsBatched

====
